---------------------------- MODULE Spec2Model ----------------------------
(***************************************************************************)
(* create_dnastringset_pool (lib/src/stringsetpool.cpp): packing a list of *)
(* DNA strings into one byte pool plus a start/width index.                *)
(*                                                                         *)
(* Representation.  A byte is its ASCII code.  A std::string is a sequence *)
(* of runs [c |-> byte, n |-> count]: n equal bytes in a row.  The loop of *)
(* lines 32-39 does the same thing to each byte of a run, so one step of   *)
(* the model handles one run.  Ordinary inputs use runs of one byte; runs  *)
(* of 2^30 bytes give strings whose length does not fit an int.            *)
(* A size_t is a pair [hi, lo] standing for hi * 2^30 + lo, because the    *)
(* integers of TLC stop at 2^31 - 1.                                       *)
(***************************************************************************)
EXTENDS Integers, Sequences, FiniteSets

VARIABLES
  pc,             \* where each caller's invocation stands
  py_seqs,        \* the caller's list of sequences (argument, by handle)
  py_names,       \* the caller's list of names (argument, by handle)
  n,              \* size_t n = py_seqs.size()
  starts,         \* std::vector<int> starts(n)
  widths,         \* std::vector<int> widths(n)
  current_start,  \* int current_start
  i,              \* the loop index of line 25
  s,              \* std::string s, the private copy of py_seqs[i]
  current_width,  \* int current_width
  j,              \* how many runs of s the loop of line 32 has passed
  pool_stream,    \* std::stringstream pool_stream
  pool,           \* py::bytes pool: <<>> until line 46 creates it
  iranges_calls,  \* the invocations of IRanges made by the current call
  ret,            \* what the last call gave its caller
  prev            \* the caller's note of an earlier outcome, see Reencode

vars == <<pc, py_seqs, py_names, n, starts, widths, current_start, i, s,
          current_width, j, pool_stream, pool, iranges_calls, ret, prev>>

locals == <<n, starts, widths, current_start, i, s, current_width, j,
            pool_stream, pool>>

-----------------------------------------------------------------------------
(* Bounds of the model. *)
MaxN == 3
MaxPool == 3
ConcMaxN == 3
WideMaxN == 3

(* The largest value of int on the platforms the extension is built for. *)
INT_MAX == 2147483647

Procs == {1, 2}

-----------------------------------------------------------------------------
(* Integers of the C++ types. *)

SizeBase == (INT_MAX \div 2) + 1

SizeZero == [hi |-> 0, lo |-> 0]

(* size_t + k, for 0 <= k <= INT_MAX. *)
SizeAdd(w, k) ==
  LET t == w.lo + (k % SizeBase)
  IN  [hi |-> w.hi + (k \div SizeBase) + (t \div SizeBase), lo |-> t % SizeBase]

(* The conversion of a size_t to int: the value modulo 2^32, as signed. *)
ToInt(w) ==
  LET m == w.hi % 4
  IN  IF m < 2 THEN m * SizeBase + w.lo ELSE (m - 4) * SizeBase + w.lo

(* An addition that counts one byte more, as for a terminating NUL. *)
IntAddTerminator(a, b) == { [trap |-> FALSE, val |-> a + b + 1] }

(* int + int.  In range, the sum.  Out of range the behaviour is undefined: *)
(* the builds in use either wrap modulo 2^32 or, with -ftrapv or a         *)
(* sanitizer, abort the process.                                           *)
IntAdd(a, b) ==
  IF b >= 0 /\ a > INT_MAX - b
    THEN { [trap |-> FALSE, val |-> (a - SizeBase - SizeBase) + (b - SizeBase - SizeBase)],
           [trap |-> TRUE, val |-> 0] }
  ELSE IF b < 0 /\ a < (-INT_MAX - 1) - b
    THEN { [trap |-> FALSE, val |-> (a + SizeBase + SizeBase) + (b + SizeBase + SizeBase)],
           [trap |-> TRUE, val |-> 0] }
  ELSE { [trap |-> FALSE, val |-> a + b] }

-----------------------------------------------------------------------------
(* Strings. *)

(* "ACGTRYSWKMBDHVN-" *)
valid_chars == <<65, 67, 71, 84, 82, 89, 83, 87, 75, 77, 66, 68, 72, 86, 78, 45>>

npos == -1

(* No case conversion. *)
toupperOmitted(c) == c

(* std::toupper in the C locale, on an ASCII byte. *)
toupper(c) == IF c >= 97 /\ c <= 122 THEN c - 32 ELSE c

Min(S) == CHOOSE x \in S : \A y \in S : x <= y

(* std::string::find(char): the 0-based position of the first occurrence. *)
find(str, c) ==
  LET hits == {k \in 1..Len(str) : str[k] = c}
  IN  IF hits = {} THEN npos ELSE Min(hits) - 1

RECURSIVE length(_)
(* std::string::length *)
length(str) ==
  IF str = <<>> THEN SizeZero ELSE SizeAdd(length(Tail(str)), Head(str).n)

RECURSIVE Prefix(_, _)
(* The first k bytes of str: what write(str.c_str(), k) puts in the stream. *)
(* A count that is not positive writes nothing.                            *)
Prefix(str, k) ==
  IF k <= 0 \/ str = <<>> THEN <<>>
  ELSE IF Head(str).n >= k THEN <<[c |-> Head(str).c, n |-> k]>>
  ELSE <<Head(str)>> \o Prefix(Tail(str), k - Head(str).n)

(* A write that puts the bytes in front of what the stream holds. *)
writeFront(stream, str, k) == Prefix(str, k) \o stream

(* std::ostream::write(str.c_str(), k) *)
write(stream, str, k) == stream \o Prefix(str, k)

-----------------------------------------------------------------------------
(* What a call gives its caller. *)

NoResult == [kind |-> "none", pool |-> <<>>, ranges |-> <<>>, err |-> <<>>]

(* py::make_tuple(pool, ranges), line 59 *)
make_tuple(bytes, ranges) ==
  [kind |-> "tuple", pool |-> <<bytes>>, ranges |-> <<ranges>>, err |-> <<>>]

Raised(e) == [kind |-> "error", pool |-> <<>>, ranges |-> <<>>, err |-> <<e>>]

(* A message that numbers the sequences from 1. *)
invalid_argument_from1(idx, c) ==
  <<"invalid_argument", "Sequence ", idx + 1, " contains invalid DNA character: ", c>>

(* std::invalid_argument("Sequence " + to_string(i) + " contains invalid   *)
(* DNA character: " + c), lines 35-37                                      *)
invalid_argument(idx, c) ==
  <<"invalid_argument", "Sequence ", idx, " contains invalid DNA character: ", c>>

(* Arguments whose names are cut to the number of sequences. *)
IRangesArgsTrimmed(st, wd, names) ==
  [start |-> st, width |-> wd, names |-> SubSeq(names, 1, Len(st))]

(* The arguments of the IRanges constructor, lines 53-57. *)
IRangesArgs(st, wd, names) == [start |-> st, width |-> wd, names |-> names]

(* What the iranges package may raise; the extension does not look at it. *)
IRangesErrors == {<<"IRangesError">>}
ImportErrors == {<<"ModuleNotFoundError">>}

-----------------------------------------------------------------------------
(* The operations. *)

Idle(p) == pc[p] \in {"idle", "returned", "raised"}

(* An entry that keeps the stream of the call before (a static stream). *)
CallStaticStream(p, seqs, names) ==
  /\ Idle(p)
  /\ py_seqs' = [py_seqs EXCEPT ![p] = seqs]
  /\ py_names' = [py_names EXCEPT ![p] = names]
  /\ n' = [n EXCEPT ![p] = Len(seqs)]
  /\ starts' = [starts EXCEPT ![p] = [k \in 1..Len(seqs) |-> 0]]
  /\ widths' = [widths EXCEPT ![p] = [k \in 1..Len(seqs) |-> 0]]
  /\ current_start' = [current_start EXCEPT ![p] = 0]
  /\ i' = [i EXCEPT ![p] = 0]
  /\ pool' = [pool EXCEPT ![p] = <<>>]
  /\ iranges_calls' = [iranges_calls EXCEPT ![p] = <<>>]
  /\ ret' = [ret EXCEPT ![p] = NoResult]
  /\ pc' = [pc EXCEPT ![p] = "loop"]
  /\ UNCHANGED <<s, current_width, j, pool_stream>>

(* Lines 15-23: entry, the locals are constructed. *)
Call(p, seqs, names) ==
  /\ Idle(p)
  /\ py_seqs' = [py_seqs EXCEPT ![p] = seqs]
  /\ py_names' = [py_names EXCEPT ![p] = names]
  /\ pool_stream' = [pool_stream EXCEPT ![p] = <<>>]
  /\ n' = [n EXCEPT ![p] = Len(seqs)]
  /\ starts' = [starts EXCEPT ![p] = [k \in 1..Len(seqs) |-> 0]]
  /\ widths' = [widths EXCEPT ![p] = [k \in 1..Len(seqs) |-> 0]]
  /\ current_start' = [current_start EXCEPT ![p] = 0]
  /\ i' = [i EXCEPT ![p] = 0]
  /\ pool' = [pool EXCEPT ![p] = <<>>]
  /\ iranges_calls' = [iranges_calls EXCEPT ![p] = <<>>]
  /\ ret' = [ret EXCEPT ![p] = NoResult]
  /\ pc' = [pc EXCEPT ![p] = "loop"]
  /\ UNCHANGED <<s, current_width, j>>

(* The locals of the loop body (s, current_width, the iterator of line 32) *)
(* end with the iteration, by line 43 or by the unwinding of a throw.      *)
EndOfBody(p) ==
  /\ s' = [s EXCEPT ![p] = <<>>]
  /\ current_width' = [current_width EXCEPT ![p] = 0]
  /\ j' = [j EXCEPT ![p] = 0]

(* A loop head that skips an empty sequence without recording its start. *)
LoopBeginSkipEmpty(p) ==
  /\ pc[p] = "loop"
  /\ i[p] < n[p]
  /\ LET str == py_seqs[p][i[p] + 1]
         w == ToInt(length(str))
     IN  IF str = <<>>
           THEN /\ i' = [i EXCEPT ![p] = i[p] + 1]
                /\ UNCHANGED <<s, current_width, starts, widths, j, pc>>
           ELSE /\ s' = [s EXCEPT ![p] = str]
                /\ current_width' = [current_width EXCEPT ![p] = w]
                /\ starts' = [starts EXCEPT ![p][i[p] + 1] = current_start[p]]
                /\ widths' = [widths EXCEPT ![p][i[p] + 1] = w]
                /\ j' = [j EXCEPT ![p] = 0]
                /\ pc' = [pc EXCEPT ![p] = "scan"]
                /\ UNCHANGED i
  /\ UNCHANGED <<py_seqs, py_names, n, current_start, pool_stream, pool,
                 iranges_calls, ret, prev>>

(* Lines 25-30: the loop test passes; copy sequence i, record start/width. *)
LoopBegin(p) ==
  /\ pc[p] = "loop"
  /\ i[p] < n[p]
  /\ LET str == py_seqs[p][i[p] + 1]
         w == ToInt(length(str))
     IN  /\ s' = [s EXCEPT ![p] = str]
         /\ current_width' = [current_width EXCEPT ![p] = w]
         /\ starts' = [starts EXCEPT ![p][i[p] + 1] = current_start[p]]
         /\ widths' = [widths EXCEPT ![p][i[p] + 1] = w]
  /\ j' = [j EXCEPT ![p] = 0]
  /\ pc' = [pc EXCEPT ![p] = "scan"]
  /\ UNCHANGED <<py_seqs, py_names, n, current_start, i, pool_stream, pool,
                 iranges_calls, ret, prev>>

(* A scan over copies of the bytes (char c, not char &c): s keeps its case. *)
ScanValidByValue(p) ==
  /\ pc[p] = "scan"
  /\ j[p] < Len(s[p])
  /\ find(valid_chars, toupper(s[p][j[p] + 1].c)) # npos
  /\ j' = [j EXCEPT ![p] = j[p] + 1]
  /\ UNCHANGED <<pc, py_seqs, py_names, n, starts, widths, current_start, i, s,
                 current_width, pool_stream, pool, iranges_calls, ret, prev>>

(* Lines 32-34, the test of line 34 failing to reject: the byte is valid. *)
ScanValid(p) ==
  /\ pc[p] = "scan"
  /\ j[p] < Len(s[p])
  /\ LET c == toupper(s[p][j[p] + 1].c)
     IN  /\ find(valid_chars, c) # npos
         /\ s' = [s EXCEPT ![p][j[p] + 1].c = c]
  /\ j' = [j EXCEPT ![p] = j[p] + 1]
  /\ UNCHANGED <<pc, py_seqs, py_names, n, starts, widths, current_start, i,
                 current_width, pool_stream, pool, iranges_calls, ret, prev>>

(* An invalid byte that ends the loop (break) instead of throwing. *)
ScanInvalidBreak(p) ==
  /\ pc[p] = "scan"
  /\ j[p] < Len(s[p])
  /\ find(valid_chars, toupper(s[p][j[p] + 1].c)) = npos
  /\ EndOfBody(p)
  /\ pool' = [pool EXCEPT ![p] = <<pool_stream[p]>>]
  /\ pc' = [pc EXCEPT ![p] = "ranges"]
  /\ UNCHANGED <<py_seqs, py_names, n, starts, widths, current_start, i,
                 pool_stream, iranges_calls, ret, prev>>

(* Lines 32-37: the byte, uppercased in place, is not in valid_chars; throw. *)
ScanInvalid(p) ==
  /\ pc[p] = "scan"
  /\ j[p] < Len(s[p])
  /\ LET c == toupper(s[p][j[p] + 1].c)
     IN  /\ find(valid_chars, c) = npos
         /\ ret' = [ret EXCEPT ![p] = Raised(invalid_argument(i[p], c))]
  /\ EndOfBody(p)
  /\ pc' = [pc EXCEPT ![p] = "raised"]
  /\ UNCHANGED <<py_seqs, py_names, n, starts, widths, current_start, i,
                 pool_stream, pool, iranges_calls, prev>>

(* Lines 41-42 and the ++i of line 25. *)
AppendSeq(p) ==
  /\ pc[p] = "scan"
  /\ j[p] = Len(s[p])
  /\ pool_stream' = [pool_stream EXCEPT ![p] = write(@, s[p], current_width[p])]
  /\ \E o \in IntAdd(current_start[p], current_width[p]) :
       IF o.trap
         THEN /\ pc' = [pc EXCEPT ![p] = "aborted"]
              /\ UNCHANGED <<current_start, i>>
         ELSE /\ current_start' = [current_start EXCEPT ![p] = o.val]
              /\ i' = [i EXCEPT ![p] = i[p] + 1]
              /\ pc' = [pc EXCEPT ![p] = "loop"]
  /\ EndOfBody(p)
  /\ UNCHANGED <<py_seqs, py_names, n, starts, widths, pool, iranges_calls,
                 ret, prev>>

(* Line 25 failing, line 46: the pool bytes object is made of the stream. *)
MakeBytes(p) ==
  /\ pc[p] = "loop"
  /\ ~(i[p] < n[p])
  /\ pool' = [pool EXCEPT ![p] = <<pool_stream[p]>>]
  /\ pc' = [pc EXCEPT ![p] = "ranges"]
  /\ UNCHANGED <<py_seqs, py_names, n, starts, widths, current_start, i, s,
                 current_width, j, pool_stream, iranges_calls, ret, prev>>

(* Lines 9-12 and 49: the import of iranges raises. *)
ImportRaises(p) ==
  /\ pc[p] = "ranges"
  /\ \E e \in ImportErrors : ret' = [ret EXCEPT ![p] = Raised(e)]
  /\ pc' = [pc EXCEPT ![p] = "raised"]
  /\ UNCHANGED <<py_seqs, py_names, locals, iranges_calls, prev>>

(* Lines 49-59: IRanges is called and returns; the pair is returned. *)
MakeRanges(p) ==
  /\ pc[p] = "ranges"
  /\ LET args == IRangesArgs(starts[p], widths[p], py_names[p])
     IN  /\ iranges_calls' = [iranges_calls EXCEPT ![p] = Append(@, args)]
         /\ ret' = [ret EXCEPT ![p] = make_tuple(pool[p][1], args)]
  /\ pc' = [pc EXCEPT ![p] = "returned"]
  /\ UNCHANGED <<py_seqs, py_names, locals, prev>>

(* Lines 49-57: IRanges is called and raises; nothing catches it. *)
RangesRaises(p) ==
  /\ pc[p] = "ranges"
  /\ LET args == IRangesArgs(starts[p], widths[p], py_names[p])
     IN  iranges_calls' = [iranges_calls EXCEPT ![p] = Append(@, args)]
  /\ \E e \in IRangesErrors : ret' = [ret EXCEPT ![p] = Raised(e)]
  /\ pc' = [pc EXCEPT ![p] = "raised"]
  /\ UNCHANGED <<py_seqs, py_names, locals, prev>>

Step(p) ==
  \/ LoopBegin(p)
  \/ ScanValid(p)
  \/ ScanInvalid(p)
  \/ AppendSeq(p)
  \/ MakeBytes(p)
  \/ ImportRaises(p)
  \/ MakeRanges(p)
  \/ RangesRaises(p)

-----------------------------------------------------------------------------
(* The callers and their inputs. *)

(* The bytes of the inputs: a - x Z *)
Chars == {97, 45, 120, 90}

Byte(c) == [c |-> c, n |-> 1]

RECURSIVE StringsOfLen(_)
StringsOfLen(k) ==
  IF k = 0 THEN {<<>>}
  ELSE {<<Byte(c)>> \o t : c \in Chars, t \in StringsOfLen(k - 1)}

RECURSIVE Lists(_, _)
(* The lists of at most m strings holding at most t bytes together. *)
Lists(m, t) ==
  IF m = 0 THEN {<<>>}
  ELSE {<<>>} \cup
       UNION { UNION { {<<str>> \o rest : rest \in Lists(m - 1, t - k)}
                       : str \in StringsOfLen(k) }
               : k \in 0..t }

Inputs == Lists(MaxN, MaxPool)

Labels(m) == [k \in 1..m |-> <<"s", k>>]

(* The arguments of a call: a list with one name per sequence, or with one *)
(* name too many.                                                          *)
Requests(S) ==
  UNION { {<<seqs, Labels(Len(seqs))>>, <<seqs, Labels(Len(seqs) + 1)>>} : seqs \in S }

(* The same with one name per sequence only. *)
NamedRequests(S) == {<<seqs, Labels(Len(seqs))>> : seqs \in S}

(* The strings of the concurrent callers: "a", "-x" *)
ConcStrings == {<<Byte(97)>>, <<Byte(45), Byte(120)>>}

RECURSIVE ListsOver(_, _)
ListsOver(S, m) ==
  IF m = 0 THEN {<<>>}
  ELSE {<<>>} \cup {<<str>> \o rest : str \in S, rest \in ListsOver(S, m - 1)}

ConcInputs == ListsOver(ConcStrings, ConcMaxN)

(* Strings too long for int: a run of 2^30 bytes, two of them. *)
LongRun == [c |-> 97, n |-> SizeBase]
WideStrings == {<<>>, <<Byte(97)>>, <<Byte(120)>>, <<LongRun>>, <<LongRun, LongRun>>}
WideInputs == ListsOver(WideStrings, WideMaxN)

(* The caller's own uppercasing of its list (str.upper on ASCII text). *)
UpperOf(c) == IF c \in 97..122 THEN c - 32 ELSE c
UpperString(str) == [k \in 1..Len(str) |-> [c |-> UpperOf(str[k].c), n |-> str[k].n]]
UpperAll(seqs) == [k \in 1..Len(seqs) |-> UpperString(seqs[k])]

(* What a finished call has produced: the error of the validation, or the  *)
(* pool and the index handed to IRanges.                                   *)
NoOutcome == [kind |-> "none", err |-> <<>>, pool |-> <<>>, start |-> <<>>, width |-> <<>>]
InvalidError(p) ==
  /\ ret[p].kind = "error"
  /\ ret[p].err[1][1] = "invalid_argument"
Outcome(p) ==
  IF InvalidError(p)
    THEN [kind |-> "invalid", err |-> ret[p].err, pool |-> <<>>, start |-> <<>>,
          width |-> <<>>]
    ELSE [kind |-> "encoded", err |-> <<>>, pool |-> pool[p], start |-> starts[p],
          width |-> widths[p]]

(* A caller encodes a list. *)
Encode(p, S) ==
  /\ \E r \in S : Call(p, r[1], r[2])
  /\ prev' = [prev EXCEPT ![p] = NoOutcome]

(* The first call of a fresh interpreter. *)
FirstEncode(p, S) ==
  /\ pc[p] = "idle"
  /\ Encode(p, S)

(* A caller encodes the uppercased forms of the list it has just encoded,  *)
(* keeping the first outcome to compare.                                   *)
Reencode(p) ==
  /\ pc[p] \in {"returned", "raised"}
  /\ Call(p, UpperAll(py_seqs[p]), py_names[p])
  /\ prev' = [prev EXCEPT ![p] = Outcome(p)]

Init ==
  /\ pc = [p \in Procs |-> "idle"]
  /\ py_seqs = [p \in Procs |-> <<>>]
  /\ py_names = [p \in Procs |-> <<>>]
  /\ n = [p \in Procs |-> 0]
  /\ starts = [p \in Procs |-> <<>>]
  /\ widths = [p \in Procs |-> <<>>]
  /\ current_start = [p \in Procs |-> 0]
  /\ i = [p \in Procs |-> 0]
  /\ s = [p \in Procs |-> <<>>]
  /\ current_width = [p \in Procs |-> 0]
  /\ j = [p \in Procs |-> 0]
  /\ pool_stream = [p \in Procs |-> <<>>]
  /\ pool = [p \in Procs |-> <<>>]
  /\ iranges_calls = [p \in Procs |-> <<>>]
  /\ ret = [p \in Procs |-> NoResult]
  /\ prev = [p \in Procs |-> NoOutcome]

(* One caller: a first call on any input within the bounds, then calls on  *)
(* the uppercased forms.                                                   *)
Next ==
  \/ FirstEncode(1, Requests(Inputs))
  \/ Reencode(1)
  \/ Step(1)

Spec == Init /\ [][Next]_vars

(* Two callers whose calls interleave step by step. *)
NextConc ==
  \E p \in Procs :
    \/ Encode(p, Requests(ConcInputs))
    \/ Step(p)

SpecConc == Init /\ [][NextConc]_vars

(* One caller, strings up to 2^31 bytes. *)
NextWide ==
  \/ FirstEncode(1, NamedRequests(WideInputs))
  \/ Step(1)

SpecWide == Init /\ [][NextWide]_vars

-----------------------------------------------------------------------------
(* The vocabulary of the properties. *)

(* The permitted symbols: A C G T R Y S W K M B D H V N - *)
Alphabet == {65, 67, 71, 84, 82, 89, 83, 87, 75, 77, 66, 68, 72, 86, 78, 45}

RECURSIVE Bytes(_)
(* The bytes of a string, one by one. *)
Bytes(str) ==
  IF str = <<>> THEN <<>>
  ELSE [k \in 1..Head(str).n |-> Head(str).c] \o Bytes(Tail(str))

UpperBytes(str) == Bytes(UpperString(str))

RECURSIVE ConcatUpper(_)
(* The uppercased sequences of a list, concatenated in order. *)
ConcatUpper(seqs) ==
  IF seqs = <<>> THEN <<>> ELSE UpperBytes(Head(seqs)) \o ConcatUpper(Tail(seqs))

ValidString(str) == \A k \in 1..Len(str) : UpperOf(str[k].c) \in Alphabet
AllValid(seqs) == \A k \in 1..Len(seqs) : ValidString(seqs[k])

(* The 1-based place of the first sequence with an invalid character, and  *)
(* of the leftmost invalid character of a string.                          *)
FirstBadSeq(seqs) == Min({k \in 1..Len(seqs) : ~ValidString(seqs[k])})
FirstBadChar(str) == str[Min({k \in 1..Len(str) : UpperOf(str[k].c) \notin Alphabet})].c

RECURSIVE SumSeq(_)
SumSeq(q) == IF q = <<>> THEN 0 ELSE Head(q) + SumSeq(Tail(q))

Finished(p) == pc[p] \in {"returned", "raised"}
Running(p) == pc[p] \in {"loop", "scan", "ranges"}

(* The pool and the index that a returned call handed over. *)
RetPool(p) == Bytes(ret[p].pool[1])
RetRanges(p) == ret[p].ranges[1]

-----------------------------------------------------------------------------
(* C1: when every character of the input, uppercased, is in the alphabet,  *)
(* the call is never rejected for an invalid character, and the pool it    *)
(* returns is the concatenation of the uppercased sequences in input       *)
(* order, with pool[start[i] .. start[i]+width[i]-1] the uppercased form   *)
(* of sequence i for every i.                                              *)
C1_PoolContent ==
  \A p \in Procs :
    (Finished(p) /\ AllValid(py_seqs[p])) =>
      /\ ~InvalidError(p)
      /\ pc[p] = "returned" =>
           /\ RetPool(p) = ConcatUpper(py_seqs[p])
           /\ \A k \in 1..Len(py_seqs[p]) :
                SubSeq(RetPool(p), RetRanges(p).start[k] + 1,
                       RetRanges(p).start[k] + RetRanges(p).width[k])
                  = UpperBytes(py_seqs[p][k])

(* ["a-", "", "a"] has been encoded: the pool is "A-A". *)
C1_Witness ==
  /\ pc[1] = "returned"
  /\ py_seqs[1] = <<<<Byte(97), Byte(45)>>, <<>>, <<Byte(97)>>>>
  /\ RetPool(1) = <<65, 45, 65>>

(* C2: after a successful call the index is a gapless partition of the     *)
(* pool: start[0] = 0, start[i] = start[i-1] + width[i-1], start[i] +      *)
(* width[i] <= len(pool), and len(pool) is the sum of the widths.          *)
C2_Partition ==
  \A p \in Procs :
    pc[p] = "returned" =>
      LET st == RetRanges(p).start
          wd == RetRanges(p).width
      IN  /\ Len(st) >= 1 => st[1] = 0
          /\ \A k \in 2..Len(st) : st[k] = st[k - 1] + wd[k - 1]
          /\ \A k \in 1..Len(st) : st[k] + wd[k] <= Len(RetPool(p))
          /\ Len(RetPool(p)) = SumSeq(wd)

(* Three sequences of one byte each have been encoded. *)
C2_Witness ==
  /\ pc[1] = "returned"
  /\ Len(py_seqs[1]) = 3
  /\ RetRanges(1).width = <<1, 1, 1>>
  /\ RetRanges(1).start = <<0, 1, 2>>

(* C3: when some sequence holds a character whose uppercased form is       *)
(* outside the alphabet, the call fails with the invalid-character error   *)
(* carrying the 0-based index of the first such sequence and the           *)
(* uppercased character at the leftmost invalid position of it; the call   *)
(* never gets to build the pool object.                                    *)
C3_FirstInvalid ==
  \A p \in Procs :
    ~AllValid(py_seqs[p]) =>
      /\ pc[p] \notin {"ranges", "returned"}
      /\ Finished(p) =>
           /\ InvalidError(p)
           /\ ret[p].err[1][3] = FirstBadSeq(py_seqs[p]) - 1
           /\ ret[p].err[1][5] = UpperOf(FirstBadChar(py_seqs[p][FirstBadSeq(py_seqs[p])]))

(* ["", "xZ", "Z"] has been rejected: sequence 1, character X. *)
C3_Witness ==
  /\ pc[1] = "raised"
  /\ py_seqs[1] = <<<<>>, <<Byte(120), Byte(90)>>, <<Byte(90)>>>>
  /\ ret[1].err[1][3] = 1
  /\ ret[1].err[1][5] = 88

(* C4: a call ends with a complete (pool, ranges) pair over all N          *)
(* sequences or with an error and nothing else; nothing is exposed while   *)
(* it runs; a validation failure leaves the pool object uncreated and      *)
(* IRanges uncalled; an error raised by IRanges is the outcome as raised.  *)
C4_AllOrNothing ==
  \A p \in Procs :
    /\ Running(p) => ret[p] = NoResult
    /\ Finished(p) =>
         \/ /\ ret[p].kind = "tuple"
            /\ pc[p] = "returned"
            /\ i[p] = Len(py_seqs[p])
            /\ ret[p].err = <<>>
            /\ ret[p].pool = pool[p]
            /\ Len(ret[p].pool) = 1
            /\ Len(ret[p].ranges) = 1
            /\ Len(RetRanges(p).start) = Len(py_seqs[p])
            /\ Len(RetRanges(p).width) = Len(py_seqs[p])
         \/ /\ ret[p].kind = "error"
            /\ pc[p] = "raised"
            /\ ret[p].pool = <<>>
            /\ ret[p].ranges = <<>>
            /\ Len(ret[p].err) = 1
            /\ InvalidError(p) => (pool[p] = <<>> /\ iranges_calls[p] = <<>>)
            /\ (~InvalidError(p) /\ iranges_calls[p] # <<>>) =>
                 ret[p].err[1] \in IRangesErrors

(* ["a", "x"] has been rejected after the bytes of "a" were appended. *)
C4_Witness ==
  /\ pc[1] = "raised"
  /\ InvalidError(1)
  /\ py_seqs[1] = <<<<Byte(97)>>, <<Byte(120)>>>>
  /\ pool_stream[1] # <<>>
  /\ starts[1] = <<0, 1>>

(* C5: encoding a list and encoding its uppercased forms give the same     *)
(* outcome: the same pool and the same start and width arrays, or the same *)
(* invalid-character error.  (prev is set by Reencode only, whose list is  *)
(* the uppercased form of the list of the call before.)                    *)
C5_CaseInsensitive ==
  \A p \in Procs :
    (Finished(p) /\ prev[p].kind # "none") => Outcome(p) = prev[p]

(* "a-" was encoded, then "A-": both pools are "A-". *)
C5_Witness ==
  /\ pc[1] = "returned"
  /\ prev[1].kind = "encoded"
  /\ py_seqs[1] = <<<<Byte(65), Byte(45)>>>>
  /\ Bytes(prev[1].pool[1]) = <<65, 45>>

(* The places of the non-empty sequences of a list, and the offset of     *)
(* sequence k in the list without its empty sequences.                    *)
NonEmptyAt(seqs) == {k \in 1..Len(seqs) : seqs[k] # <<>>}
OffsetWithoutEmpties(seqs, k) ==
  SumSeq([m \in 1..Cardinality({q \in NonEmptyAt(seqs) : q < k}) |->
           Len(seqs[CHOOSE q \in NonEmptyAt(seqs) :
                      Cardinality({r \in NonEmptyAt(seqs) : r < q}) = m - 1])])

(* C6: an empty list is encoded as an empty pool with empty start and      *)
(* width arrays; an empty sequence is never what a call is rejected for,   *)
(* gets width 0 and the start of the sequence after it (len(pool) when it  *)
(* is last), and the other sequences start where they would without it.    *)
C6_EmptyInputs ==
  \A p \in Procs :
    /\ (InvalidError(p) /\ pc[p] = "raised") => py_seqs[p][i[p] + 1] # <<>>
    /\ pc[p] = "returned" =>
         LET st == RetRanges(p).start
             wd == RetRanges(p).width
             N == Len(py_seqs[p])
         IN  /\ N = 0 => (RetPool(p) = <<>> /\ st = <<>> /\ wd = <<>>
                           /\ iranges_calls[p] = <<RetRanges(p)>>)
             /\ \A k \in 1..N :
                  py_seqs[p][k] = <<>> =>
                    /\ wd[k] = 0
                    /\ st[k] = IF k < N THEN st[k + 1] ELSE Len(RetPool(p))
             /\ \A k \in NonEmptyAt(py_seqs[p]) :
                  st[k] = OffsetWithoutEmpties(py_seqs[p], k)

(* ["", "a", ""] has been encoded. *)
C6_Witness ==
  /\ pc[1] = "returned"
  /\ py_seqs[1] = <<<<>>, <<Byte(97)>>, <<>>>>
  /\ RetRanges(1).start = <<0, 0, 1>>
  /\ RetRanges(1).width = <<0, 1, 0>>

(* IRanges is called once, at the end, with what the caller supplied; the *)
(* steps of a running call leave the caller's lists alone.                 *)
C7_CallsIRangesOnce ==
  \A p \in Procs :
    /\ pc[p] \in {"loop", "scan"} => iranges_calls[p] = <<>>
    /\ pc[p] = "ranges" => (iranges_calls[p] = <<>> /\ i[p] = Len(py_seqs[p]))
    /\ pc[p] = "returned" =>
         /\ Len(iranges_calls[p]) = 1
         /\ Len(iranges_calls[p][1].start) = Len(py_seqs[p])
         /\ Len(iranges_calls[p][1].width) = Len(py_seqs[p])
         /\ iranges_calls[p][1].names = py_names[p]

C7_InputsUntouched ==
  \A p \in Procs :
    Running(p) => (py_seqs'[p] = py_seqs[p] /\ py_names'[p] = py_names[p])

(* C7: the steps of a call leave the caller's sequences and names as they  *)
(* are; IRanges is not called before the last sequence is processed, and a *)
(* returned call has called it exactly once, with start and width arrays   *)
(* of length N and the names list as supplied, whatever its length.        *)
C7_Frame == [](C7_CallsIRangesOnce) /\ [][C7_InputsUntouched]_vars

(* ["a", "a-"] has been encoded with three names, all handed to IRanges;   *)
(* the caller's list still holds the lowercase "a".                        *)
C7_Witness ==
  /\ pc[1] = "returned"
  /\ py_seqs[1] = <<<<Byte(97)>>, <<Byte(97), Byte(45)>>>>
  /\ Len(py_names[1]) = 3
  /\ iranges_calls[1][1].names = py_names[1]

(* Sums of sizes, and an int holding the value of a size. *)
SizePlus(v, w) ==
  [hi |-> v.hi + w.hi + ((v.lo + w.lo) \div SizeBase), lo |-> (v.lo + w.lo) % SizeBase]

RECURSIVE TrueOffset(_, _)
(* The sum of the lengths of the first k sequences. *)
TrueOffset(seqs, k) ==
  IF k = 0 THEN SizeZero ELSE SizePlus(TrueOffset(seqs, k - 1), length(seqs[k]))

IntIs(x, w) == w.hi < 2 /\ x = w.hi * SizeBase + w.lo

(* C8: every start and width handed to IRanges is non-negative and equal   *)
(* to the true offset and the true length of its sequence, whatever the    *)
(* sizes.                                                                  *)
C8_NoWrap ==
  \A p \in Procs :
    \A c \in 1..Len(iranges_calls[p]) :
      \A k \in 1..Len(py_seqs[p]) :
        /\ iranges_calls[p][c].start[k] >= 0
        /\ iranges_calls[p][c].width[k] >= 0
        /\ IntIs(iranges_calls[p][c].width[k], length(py_seqs[p][k]))
        /\ IntIs(iranges_calls[p][c].start[k], TrueOffset(py_seqs[p], k - 1))

(* C9: callers share nothing: two finished calls on the same sequences and *)
(* names have the same outcome, whatever ran before either of them and     *)
(* however their steps and those of other calls interleaved.               *)
C9_Independent ==
  \A p \in Procs : \A q \in Procs :
    (Finished(p) /\ Finished(q) /\ py_seqs[p] = py_seqs[q] /\ py_names[p] = py_names[q])
      => Outcome(p) = Outcome(q)

(* Both callers have encoded ["a", "a"]; IRanges raised for the second. *)
C9_Witness ==
  /\ pc[1] = "returned"
  /\ pc[2] = "raised"
  /\ ~InvalidError(2)
  /\ py_seqs[1] = <<<<Byte(97)>>, <<Byte(97)>>>>
  /\ py_seqs[2] = py_seqs[1]
  /\ Bytes(pool[2][1]) = <<65, 65>>

(* C10: at the top of the loop the stream holds the uppercased sequences   *)
(* 0..i-1 in order, all of its bytes are in the alphabet and current_start *)
(* is its length; while sequence i is scanned, and when it is rejected,    *)
(* the stream holds nothing of it; the sequence scanned is sequence i.     *)
C10_LoopInvariant ==
  \A p \in Procs :
    /\ pc[p] \in {"loop", "scan", "ranges"} =>
         /\ i[p] <= Len(py_seqs[p])
         /\ Bytes(pool_stream[p]) = ConcatUpper(SubSeq(py_seqs[p], 1, i[p]))
         /\ \A k \in 1..Len(Bytes(pool_stream[p])) : Bytes(pool_stream[p])[k] \in Alphabet
         /\ current_start[p] = Len(Bytes(pool_stream[p]))
    /\ pc[p] = "scan" =>
         /\ i[p] < Len(py_seqs[p])
         /\ UpperBytes(s[p]) = UpperBytes(py_seqs[p][i[p] + 1])
         /\ \A k \in 1..j[p] : s[p][k].c \in Alphabet
    /\ (pc[p] = "raised" /\ InvalidError(p)) =>
         /\ ~ValidString(py_seqs[p][i[p] + 1])
         /\ Bytes(pool_stream[p]) = ConcatUpper(SubSeq(py_seqs[p], 1, i[p]))

(* The third iteration is about to start, "a" and "-" are in the stream. *)
C10_Witness ==
  /\ pc[1] = "loop"
  /\ i[1] = 2
  /\ n[1] = 3
  /\ Bytes(pool_stream[1]) = <<65, 45>>
  /\ current_start[1] = 2

=============================================================================
